---- MODULE Spec2Model ----
(***************************************************************************)
(* A model of the Odacova HTTP client (src/odacova/__init__.py): the       *)
(* constructor's validation and base URL normalisation, the endpoint       *)
(* methods with the shared response handler, terminate(), and the message  *)
(* poller that spec.md section 4.3 layers on the response handler.         *)
(*                                                                         *)
(* Python strings are sequences of one-character strings, so that          *)
(* startswith, endswith and f-string concatenation are computed.           *)
(***************************************************************************)
EXTENDS Integers, Sequences, FiniteSets

VARIABLES
    ctorArgs,        \* the arguments the constructor was called with
    client,          \* "none" | "ok" (the caller holds the instance) | "error" (__init__ raised)
    ctorError,       \* the exception __init__ raised: [type, msg], or NoError
    base_url,        \* self.base_url
    bot_token,       \* self.bot_token
    headers,         \* self.headers
    session,         \* self.session: "none" | "open" | "closed"
    requests,        \* the HTTP requests the last endpoint call issued, in order
    lastResponse,    \* the outcome of the HTTP exchange of the last endpoint call
    lastCall,        \* what the last endpoint call gave its caller
    pollState,       \* the poller's position: "Idle" | "Checking"
    pollRequest,     \* the requests the current/last poll iteration issued
    pollResponse,    \* the response the last completed poll iteration received
    lastSeenMessage, \* PollState.lastSeenMessage: <<>> (None) or <<text>>
    emitted,         \* what the last completed poll iteration emitted: <<>> or <<pair>>
    prevSeen,        \* lastSeenMessage as it was when that iteration started
    prevEmitted      \* the emission before the latest one: <<>> or <<pair>>

clientVars == <<ctorArgs, client, ctorError, base_url, bot_token, headers, session>>
callVars   == <<requests, lastResponse, lastCall>>
pollVars   == <<pollState, pollRequest, pollResponse, lastSeenMessage, emitted,
                prevSeen, prevEmitted>>
vars       == <<clientVars, callVars, pollVars>>

-----------------------------------------------------------------------------
(* The inputs of the model. *)
MaxUrlLen == 6

UrlChars == {"h", "t", "p", "/"}

SeqsUpTo(S, n) == UNION {[1..k -> S] : k \in 0..n}

\* Every string over UrlChars of at most MaxUrlLen characters.
BaseUrls  == SeqsUpTo(UrlChars, MaxUrlLen)
\* An empty and a non-empty token; an empty and a non-empty message.
BotTokens  == {<<>>, <<"k">>}
Messages   == {<<>>, <<"x">>}
\* The token argument of post_message, told apart from the bot token.
PostTokens == {<<>>, <<"t">>}

-----------------------------------------------------------------------------
(* String literals of the source. *)
S_http      == <<"h", "t", "t", "p">>
S_slash     == <<"/">>
S_Bearer    == <<"B", "e", "a", "r", "e", "r", " ">>
S_appjson   == <<"a", "p", "p", "l", "i", "c", "a", "t", "i", "o", "n", "/",
                 "j", "s", "o", "n">>
S_events    == <<"/", "e", "v", "e", "n", "t", "s">>
S_heartbeat == <<"/", "h", "e", "a", "r", "t", "b", "e", "a", "t">>
S_channels  == <<"/", "c", "h", "a", "n", "n", "e", "l", "s">>
S_users     == <<"/", "u", "s", "e", "r", "s">>
S_bots      == <<"/", "b", "o", "t", "s">>
S_route_bot == <<"/", "r", "o", "u", "t", "e", "_", "b", "o", "t">>
S_chat      == <<"/", "c", "h", "a", "t">>
S_latest    == <<"?", "l", "a", "t", "e", "s", "t", "=", "t", "r", "u", "e">>

startswith(s, prefix) ==
    /\ Len(s) >= Len(prefix)
    /\ SubSeq(s, 1, Len(prefix)) = prefix

endswith(s, suffix) ==
    /\ Len(s) >= Len(suffix)
    /\ SubSeq(s, Len(s) - Len(suffix) + 1, Len(s)) = suffix

-----------------------------------------------------------------------------
(* Odacova.__init__ *)

NoError == [type |-> "", msg |-> ""]

\* Mutant: the bot token check is dropped.
ValidationError_NoTokenCheck(url, token) ==
    IF url = <<>> THEN [type |-> "ValueError", msg |-> "Missing base URL."]
    ELSE IF ~startswith(url, S_http)
         THEN [type |-> "ValueError", msg |-> "Base URL must start with http or https."]
    ELSE NoError

\* The three validation checks, in source order; the first that fails raises.
ValidationError(url, token) ==
    IF token = <<>> THEN [type |-> "ValueError", msg |-> "Missing bot token."]
    ELSE IF url = <<>> THEN [type |-> "ValueError", msg |-> "Missing base URL."]
    ELSE IF ~startswith(url, S_http)
         THEN [type |-> "ValueError", msg |-> "Base URL must start with http or https."]
    ELSE NoError

\* Mutant: the slash is appended whether or not one is there.
NormalizedBaseUrl_AlwaysAppend(url) == url \o S_slash

\* if not base_url.endswith('/'): self.base_url = f'{base_url}/'
NormalizedBaseUrl(url) ==
    IF ~endswith(url, S_slash) THEN url \o S_slash ELSE url

\* self.headers = {'Authorization': f'Bearer {bot_token}'}
AuthHeaders(token) == {[name |-> "Authorization", value |-> S_Bearer \o token]}

\* The whole constructor. The session is opened (line 24) before any check
\* runs, so it is open whether or not the constructor then raises; when it
\* raises the caller gets no instance.
Construct ==
    /\ client = "none"
    /\ \E url \in BaseUrls, token \in BotTokens :
         LET err == ValidationError(url, token) IN
         /\ ctorArgs'  = [base_url |-> url, bot_token |-> token]
         /\ bot_token' = token
         /\ session'   = "open"
         /\ headers'   = AuthHeaders(token)
         /\ ctorError' = err
         /\ IF err # NoError
               THEN /\ client'   = "error"
                    /\ base_url' = url
               ELSE /\ client'   = "ok"
                    /\ base_url' = NormalizedBaseUrl(url)
    /\ UNCHANGED <<callVars, pollVars>>

\* await self.session.close()
terminate ==
    /\ client = "ok"
    /\ session = "open"
    /\ session' = "closed"
    /\ UNCHANGED <<ctorArgs, client, ctorError, base_url, bot_token, headers,
                   callVars, pollVars>>

-----------------------------------------------------------------------------
(* The HTTP exchange: what the service and the network can do to a call. *)

Statuses == {200, 400, 404}

Bodies == {
    "{\"a\":1}",
    "[]",
    "[{\"message\":\"hi\",\"user\":\"bob\"}]",
    "[{\"message\":\"yo\",\"user\":\"amy\"}]",
    "null",
    "not json" }

\* What reading the body (await response.text()) can raise.
ReadErrors == {"ClientPayloadError", "UnicodeDecodeError", "TimeoutError"}

\* The request could not be issued: no response exists.
ConnError == [conn |-> "error", status |-> 0, body |-> "", read |-> "ok"]

\* A response that arrived: its status, and either its body or the error that
\* reading the body raises.
Arrived ==
    {[conn |-> "ok", status |-> s, body |-> b, read |-> "ok"] :
        s \in Statuses, b \in Bodies}
    \cup
    {[conn |-> "ok", status |-> s, body |-> "", read |-> r] :
        s \in Statuses, r \in ReadErrors}

Responses == {ConnError} \cup Arrived

-----------------------------------------------------------------------------
(* Python values an endpoint method can return. *)

None == [kind |-> "None", items |-> <<>>]
Dict == [kind |-> "dict", items |-> <<>>]
List(items) == [kind |-> "list", items |-> items]

\* json.loads on the bodies above: the parsed value, or JSONDecodeError.
\* JSON null parses to Python None.
json_loads(text) ==
    CASE text = "{\"a\":1}" -> [ok |-> TRUE, value |-> Dict]
      [] text = "[]"        -> [ok |-> TRUE, value |-> List(<<>>)]
      [] text = "[{\"message\":\"hi\",\"user\":\"bob\"}]" ->
            [ok |-> TRUE, value |-> List(<<[message |-> "hi", user |-> "bob"]>>)]
      [] text = "[{\"message\":\"yo\",\"user\":\"amy\"}]" ->
            [ok |-> TRUE, value |-> List(<<[message |-> "yo", user |-> "amy"]>>)]
      [] text = "null"      -> [ok |-> TRUE, value |-> None]
      [] OTHER              -> [ok |-> FALSE, value |-> None]

\* The classes an exception is an instance of.
Bases(exc) ==
    CASE exc = "ClientResponseError"  -> {"ClientResponseError", "ClientError"}
      [] exc = "ClientPayloadError"   -> {"ClientPayloadError", "ClientError"}
      [] exc = "ClientConnectorError" -> {"ClientConnectorError", "ClientError", "OSError"}
      [] exc = "JSONDecodeError"      -> {"JSONDecodeError", "ValueError"}
      [] exc = "UnicodeDecodeError"   -> {"UnicodeDecodeError", "ValueError"}
      [] exc = "TimeoutError"         -> {"TimeoutError", "OSError"}
      [] OTHER                        -> {exc}

\* except (aiohttp.ClientError, json.JSONDecodeError, ValueError)
ExceptClause == {"ClientError", "JSONDecodeError", "ValueError"}

Caught(exc) == Bases(exc) \cap ExceptClause # {}

Returned(value) == [outcome |-> "returned", value |-> value, exc |-> ""]
Raised(exc)     == [outcome |-> "raised", value |-> None, exc |-> exc]

\* Mutant: response.raise_for_status() is not called.
handle_response_NoStatusCheck(response) ==
    LET parsed == json_loads(response.body)
        exc    == IF response.read # "ok" THEN response.read
                  ELSE IF ~parsed.ok THEN "JSONDecodeError"
                  ELSE ""
    IN  IF exc = "" THEN Returned(parsed.value)
        ELSE IF Caught(exc) THEN Returned(None)
        ELSE Raised(exc)

\* Mutant: the parsed value is not returned.
handle_response_NoReturn(response) ==
    IF response.status < 400 /\ response.read # "ok" /\ ~Caught(response.read)
    THEN Raised(response.read)
    ELSE Returned(None)

\* Odacova._handle_response: raise_for_status(), then text(), then
\* json.loads(); the first exception raised inside the try is printed and
\* turned into None when the except clause names it, and propagates otherwise.
_handle_response(response) ==
    LET parsed == json_loads(response.body)
        exc    == IF response.status >= 400 THEN "ClientResponseError"
                  ELSE IF response.read # "ok" THEN response.read
                  ELSE IF ~parsed.ok THEN "JSONDecodeError"
                  ELSE ""
    IN  IF exc = "" THEN Returned(parsed.value)
        ELSE IF Caught(exc) THEN Returned(None)
        ELSE Raised(exc)

\* async with self.session.get/post(...) as response: return await
\* self._handle_response(response). Entering the context issues the request
\* outside any try, so a connection failure propagates to the caller.
EndpointResult(response) ==
    IF response.conn # "ok" THEN Raised("ClientConnectorError")
    ELSE _handle_response(response)

-----------------------------------------------------------------------------
(* The endpoint methods. *)

\* Mutant: the Authorization header is not passed.
GetRequest_NoHeaders(url, hdrs, path) ==
    [method |-> "GET", url |-> url \o path, headers |-> {}, json |-> {}]

\* self.session.get(f'{self.base_url}<path>', headers=self.headers)
GetRequest(url, hdrs, path) ==
    [method |-> "GET", url |-> url \o path, headers |-> hdrs, json |-> {}]

\* Mutant: the bearer header is built from the token argument and sent too.
PostMessageRequest_WithAuth(url, message, token) ==
    [method  |-> "POST",
     url     |-> url \o S_chat,
     headers |-> {[name |-> "Content-Type", value |-> S_appjson]}
                 \cup AuthHeaders(token),
     json    |-> {[key |-> "message", value |-> message],
                  [key |-> "token", value |-> token]}]

\* test_headers / test_data and self.session.post(f'{self.base_url}/chat', ...)
PostMessageRequest(url, message, token) ==
    [method  |-> "POST",
     url     |-> url \o S_chat,
     headers |-> {[name |-> "Content-Type", value |-> S_appjson]},
     json    |-> {[key |-> "message", value |-> message],
                  [key |-> "token", value |-> token]}]

NoCall == [endpoint |-> "", message |-> <<>>, token |-> <<>>,
           outcome |-> "", value |-> None, exc |-> ""]

\* One endpoint call: one request, one exchange, one result. Calling on a
\* closed session is outside the contract (spec.md 4.1), so it is not modelled.
Call(endpoint, request, message, token, response) ==
    /\ client = "ok"
    /\ session = "open"
    /\ requests' = <<request>>
    /\ lastResponse' = response
    /\ lastCall' = LET r == EndpointResult(response) IN
                   [endpoint |-> endpoint, message |-> message, token |-> token,
                    outcome |-> r.outcome, value |-> r.value, exc |-> r.exc]
    /\ UNCHANGED <<clientVars, pollVars>>

get_events ==
    \E response \in Responses :
        Call("get_events", GetRequest(base_url, headers, S_events), <<>>, <<>>, response)

get_heartbeat ==
    \E response \in Responses :
        Call("get_heartbeat", GetRequest(base_url, headers, S_heartbeat), <<>>, <<>>, response)

get_channels ==
    \E response \in Responses :
        Call("get_channels", GetRequest(base_url, headers, S_channels), <<>>, <<>>, response)

get_users ==
    \E response \in Responses :
        Call("get_users", GetRequest(base_url, headers, S_users), <<>>, <<>>, response)

get_bots ==
    \E response \in Responses :
        Call("get_bots", GetRequest(base_url, headers, S_bots), <<>>, <<>>, response)

route_bot ==
    \E response \in Responses :
        Call("route_bot", GetRequest(base_url, headers, S_route_bot), <<>>, <<>>, response)

post_message ==
    \E message \in Messages, token \in PostTokens, response \in Responses :
        Call("post_message", PostMessageRequest(base_url, message, token),
             message, token, response)

get_message ==
    \E response \in Responses :
        Call("get_message", GetRequest(base_url, headers, S_chat), <<>>, <<>>, response)

-----------------------------------------------------------------------------
(* The client on its own: construction, endpoint calls, termination. *)

Init ==
    /\ ctorArgs = [base_url |-> <<>>, bot_token |-> <<>>]
    /\ client = "none"
    /\ ctorError = NoError
    /\ base_url = <<>>
    /\ bot_token = <<>>
    /\ headers = {}
    /\ session = "none"
    /\ requests = <<>>
    /\ lastResponse = ConnError
    /\ lastCall = NoCall
    /\ pollState = "Idle"
    /\ pollRequest = <<>>
    /\ pollResponse = ConnError
    /\ lastSeenMessage = <<>>
    /\ emitted = <<>>
    /\ prevSeen = <<>>
    /\ prevEmitted = <<>>

Next ==
    \/ Construct
    \/ get_events
    \/ get_heartbeat
    \/ get_channels
    \/ get_users
    \/ get_bots
    \/ route_bot
    \/ post_message
    \/ get_message
    \/ terminate

Spec == Init /\ [][Next]_vars

-----------------------------------------------------------------------------
(* The message poller of spec.md 4.3, layered on the response handler. *)

\* Step 1: a GET to the chat endpoint asking for the latest message only.
PollRequest(url, hdrs) == GetRequest(url, hdrs, S_chat \o S_latest)

\* Step 3: the decoded payload holds at least one message.
HasMessage(value) == value.kind = "list" /\ Len(value.items) >= 1

\* Idle -> Checking: the request is issued.
PollCheck ==
    /\ client = "ok"
    /\ session = "open"
    /\ pollState = "Idle"
    /\ pollState' = "Checking"
    /\ pollRequest' = <<PollRequest(base_url, headers)>>
    /\ UNCHANGED <<clientVars, callVars, pollResponse, lastSeenMessage, emitted,
                   prevSeen, prevEmitted>>

\* Checking -> Idle: the response is decoded by the handler; a Failure is
\* swallowed; a message whose text differs from lastSeenMessage is recorded
\* and emitted as (message, author). An exception the handler lets through
\* ends the poller.
PollResult ==
    /\ pollState = "Checking"
    /\ \E response \in Arrived :
         LET r      == _handle_response(response)
             latest == r.value.items[1]
             new    == /\ r.outcome = "returned"
                       /\ HasMessage(r.value)
                       /\ <<latest.message>> # lastSeenMessage
         IN  /\ pollResponse' = response
             /\ pollState' = IF r.outcome = "raised" THEN "Raised" ELSE "Idle"
             /\ prevSeen' = lastSeenMessage
             /\ prevEmitted' = IF emitted # <<>> THEN emitted ELSE prevEmitted
             /\ emitted' = IF new
                           THEN <<[message |-> latest.message, author |-> latest.user]>>
                           ELSE <<>>
             /\ lastSeenMessage' = IF new THEN <<latest.message>> ELSE lastSeenMessage
    /\ UNCHANGED <<clientVars, callVars, pollRequest>>

\* The poller runs on a client that was constructed successfully.
PollInit ==
    /\ \E url \in BaseUrls, token \in BotTokens :
         /\ ValidationError(url, token) = NoError
         /\ ctorArgs = [base_url |-> url, bot_token |-> token]
         /\ base_url = NormalizedBaseUrl(url)
         /\ bot_token = token
         /\ headers = AuthHeaders(token)
    /\ client = "ok"
    /\ ctorError = NoError
    /\ session = "open"
    /\ requests = <<>>
    /\ lastResponse = ConnError
    /\ lastCall = NoCall
    /\ pollState = "Idle"
    /\ pollRequest = <<>>
    /\ pollResponse = ConnError
    /\ lastSeenMessage = <<>>
    /\ emitted = <<>>
    /\ prevSeen = <<>>
    /\ prevEmitted = <<>>

PollNext ==
    \/ PollCheck
    \/ PollResult

PollSpec == PollInit /\ [][PollNext]_vars

-----------------------------------------------------------------------------
(* Properties. *)

Called == lastCall.endpoint # ""

CallResult == [outcome |-> lastCall.outcome, value |-> lastCall.value,
               exc |-> lastCall.exc]

\* The bodies above that are JSON documents.
ValidJson == {"{\"a\":1}", "[]", "[{\"message\":\"hi\",\"user\":\"bob\"}]",
              "[{\"message\":\"yo\",\"user\":\"amy\"}]", "null"}

\* A failed exchange: no connection, an error status, an unreadable body, or
\* a body that is not JSON.
FailedExchange(response) ==
    \/ response.conn # "ok"
    \/ response.status >= 400
    \/ response.read # "ok"
    \/ response.body \notin ValidJson

\* C1: every endpoint call returns to its caller, and returns the Failure
\* result (None) when the exchange failed; no call raises.
C1_NoErrorPropagates ==
    Called =>
        /\ lastCall.outcome = "returned"
        /\ FailedExchange(lastResponse) => lastCall.value = None

\* C2: a response with a status below 400 and a JSON body yields a result
\* that differs from the result of every failed response.
C2_SuccessDistinguishable ==
    ( /\ Called
      /\ lastResponse.conn = "ok"
      /\ lastResponse.status < 400
      /\ lastResponse.read = "ok"
      /\ lastResponse.body \in ValidJson )
    => /\ lastCall.outcome = "returned"
       /\ \A f \in Arrived :
            (f.status >= 400 \/ (f.read = "ok" /\ f.body \notin ValidJson))
            => _handle_response(f) # CallResult

BadConfig(url, token) ==
    \/ token = <<>>
    \/ url = <<>>
    \/ ~( /\ Len(url) >= 4
          /\ url[1] = "h" /\ url[2] = "t" /\ url[3] = "t" /\ url[4] = "p" )

\* C4: construction raises ValueError exactly when the token is empty, the
\* base URL is empty, or the base URL does not start with "http"; otherwise
\* it succeeds.
C4_ConstructionFailsIff ==
    client # "none" =>
        IF BadConfig(ctorArgs.base_url, ctorArgs.bot_token)
        THEN client = "error" /\ ctorError.type = "ValueError"
        ELSE client = "ok" /\ ctorError = NoError

C4_Witness ==
    /\ client = "error"
    /\ ctorError.type = "ValueError"
    /\ ctorArgs.bot_token = <<>>
    /\ ctorArgs.base_url = <<"h", "t", "t", "p", "/">>

LastChar(s) == s[Len(s)]

\* C5 as stated: after a successful construction the base URL ends with
\* exactly one "/".
C5_ExactlyOneTrailingSlash ==
    client = "ok" =>
        /\ LastChar(base_url) = "/"
        /\ ~(Len(base_url) >= 2 /\ base_url[Len(base_url) - 1] = "/")

\* C5 as amended: after a successful construction the base URL ends with
\* "/": it is the input itself when the input ends with "/", and the input
\* followed by one "/" otherwise; and no step changes base_url or bot_token
\* afterwards.
C5_TrailingSlashStable ==
    /\ [](client = "ok" =>
            /\ LastChar(base_url) = "/"
            /\ base_url = IF LastChar(ctorArgs.base_url) = "/"
                          THEN ctorArgs.base_url
                          ELSE Append(ctorArgs.base_url, "/")
            /\ bot_token = ctorArgs.bot_token)
    /\ [][client = "ok" => base_url' = base_url /\ bot_token' = bot_token]_vars

C5_Witness ==
    /\ client = "ok"
    /\ Called
    /\ ctorArgs.base_url = <<"h", "t", "t", "p", "/">>
    /\ base_url = <<"h", "t", "t", "p", "/">>

ReadEndpoints == {"get_events", "get_heartbeat", "get_channels", "get_users",
                  "get_bots", "route_bot", "get_message"}

\* The resource path of each read endpoint, get_message without a query.
ResourcePath(endpoint) ==
    CASE endpoint = "get_events"    -> S_events
      [] endpoint = "get_heartbeat" -> S_heartbeat
      [] endpoint = "get_channels"  -> S_channels
      [] endpoint = "get_users"     -> S_users
      [] endpoint = "get_bots"      -> S_bots
      [] endpoint = "route_bot"     -> S_route_bot
      [] endpoint = "get_message"   -> S_chat

\* The same, with get_message asking for the latest message only.
ClaimedPath(endpoint) ==
    IF endpoint = "get_message" THEN S_chat \o S_latest ELSE ResourcePath(endpoint)

OneGet(path) ==
    requests = <<[method  |-> "GET",
                  url     |-> base_url \o path,
                  headers |-> {[name |-> "Authorization",
                                value |-> S_Bearer \o bot_token]},
                  json    |-> {}]>>

C7_PostMessageRequest ==
    lastCall.endpoint = "post_message" =>
        /\ Len(requests) = 1
        /\ requests[1].method = "POST"
        /\ requests[1].url = base_url \o S_chat
        /\ requests[1].json = {[key |-> "message", value |-> lastCall.message],
                               [key |-> "token", value |-> lastCall.token]}
        /\ requests[1].headers = {[name |-> "Content-Type", value |-> S_appjson]}
        /\ \A h \in requests[1].headers : h.name # "Authorization"

C7_Witness ==
    /\ lastCall.endpoint = "post_message"
    /\ lastCall.message = <<"x">>
    /\ lastCall.token = <<"t">>
    /\ bot_token = <<"k">>
    /\ Len(requests) = 1
    /\ requests[1].method = "POST"

\* A poll iteration has completed.
Polled == pollResponse # ConnError

\* The message a response body carries, as (message, author).
Carried(body) ==
    CASE body = "[{\"message\":\"hi\",\"user\":\"bob\"}]" ->
            <<[message |-> "hi", author |-> "bob"]>>
      [] body = "[{\"message\":\"yo\",\"user\":\"amy\"}]" ->
            <<[message |-> "yo", author |-> "amy"]>>
      [] OTHER -> <<>>

\* A response that is successful and carries a message other than `seen`.
NewMessage(response, seen) ==
    /\ response.status < 400
    /\ response.read = "ok"
    /\ Carried(response.body) # <<>>
    /\ <<Carried(response.body)[1].message>> # seen

C10_NoLeakedSession ==
    session = "open" => client = "ok"

====
